---- MODULE Spec2Model ----
(***************************************************************************)
(* A model of pwndbg's memory-map discovery (pwndbg/vmmap.py): the         *)
(* fallback chain of source strategies behind get(), the memoized find(),  *)
(* the boundary prober explore(), the Exploration Cache explored_pages,    *)
(* the ASLR detector check_aslr(), and the three lifecycle events (stop,   *)
(* new-objfile, exit) that reset the memoization caches.                   *)
(*                                                                         *)
(* Python values are modelled as follows.  An address is a natural number, *)
(* Python's None passed as an address is the value None (-1).  A tuple or  *)
(* list of Pages is a sequence of Page records.  "Page or None" is a       *)
(* sequence of length at most one.  A text report is a sequence of lines,  *)
(* a line a sequence of whitespace-separated tokens; a token that is a hex *)
(* number carries its value.  A call never returns a value alone: every    *)
(* operator that models a function takes the context c (the module's       *)
(* mutable state plus the record of the collaborators called so far) and   *)
(* returns [c |-> the context after the call, v |-> the value returned].   *)
(***************************************************************************)
EXTENDS Integers, Sequences, FiniteSets, TLC

(***************************************************************************)
(* Bounds of the model.                                                    *)
(***************************************************************************)
\* The target's address space is the pages FirstPage..MaxPage.
MaxPage == 8
\* explore() appends to explored_pages without limit; the model stops at
\* MaxExplored entries.
MaxExplored == 2

\* A report of info files has at most MaxLines lines.
MaxLines == 3

(***************************************************************************)
(* Constants of pwndbg.memory.                                             *)
(***************************************************************************)
PAGE_SIZE == 4096
MMAP_MIN_ADDR == 32768
None == -1

FirstPage == MMAP_MIN_ADDR \div PAGE_SIZE
Pages == FirstPage..MaxPage
\* An address inside page p that is not page aligned.
AddrOf(p) == p * PAGE_SIZE + 16

READ == 4
WRITE == 2
EXEC == 1

(***************************************************************************)
(* pwndbg.memory.Page                                                      *)
(***************************************************************************)
Page(start, size, flags, offset, objfile) ==
    [start |-> start, size |-> size, flags |-> flags, offset |-> offset,
     objfile |-> objfile]

End(p) == p.start + p.size

\* address in page
Contains(p, a) == p.start <= a /\ a < End(p)

page_align(a) == a - (a % PAGE_SIZE)

NoPage == <<>>

\* list.sort() on Pages: a stable sort by start address.
RECURSIVE Insert(_, _)
Insert(s, p) ==
    IF s = <<>> THEN <<p>>
    ELSE IF p.start < Head(s).start THEN <<p>> \o s
    ELSE <<Head(s)>> \o Insert(Tail(s), p)

RECURSIVE SortFrom(_, _)
SortFrom(acc, s) ==
    IF s = <<>> THEN acc ELSE SortFrom(Insert(acc, Head(s)), Tail(s))

Sort(s) == SortFrom(<<>>, s)

Min(S) == CHOOSE x \in S : \A y \in S : x <= y

(***************************************************************************)
(* The context of a call.                                                  *)
(*   memo      the caches of the memoized functions                        *)
(*   explored  explored_pages                                              *)
(*   aslr      the module variable aslr                                    *)
(*   calls     the functions and collaborators invoked so far              *)
(*   bsearch   the <<address, name>> pairs find_boundaries was called with *)
(*   reused    the memoized functions answered from their cache            *)
(*   fresh     the memoized functions whose body ran                       *)
(*   exc       an exception is propagating                                 *)
(***************************************************************************)
Ret(c, v) == [c |-> c, v |-> v]

Called(c, name) == [c EXCEPT !.calls = @ \cup {name}]

Raise(c) == [c EXCEPT !.exc = TRUE]

(***************************************************************************)
(* pwndbg.memoize: a memoized function keeps one cache, from argument      *)
(* tuples to returned values; a raised exception caches nothing.  The      *)
(* cache is emptied by the event its decorator names.                      *)
(***************************************************************************)
NoCache == <<>>

Cached(c, f, key) == key \in DOMAIN c.memo[f]

Hit(c, f, key) ==
    Ret([c EXCEPT !.calls = @ \cup {f}, !.reused = @ \cup {f}], c.memo[f][key])

Store(r, f, key) ==
    IF r.c.exc THEN r
    ELSE Ret([r.c EXCEPT !.memo[f] = (key :> r.v) @@ @, !.fresh = @ \cup {f}], r.v)

Funcs == {"find", "proc_pid_maps", "info_sharedlibrary", "info_files",
          "info_auxv", "check_aslr"}

\* The decorators, had proc_pid_maps been given the decorator of the report
\* parsers (reset_on_objfile).
ResetKindMapsOnObjfile(f) ==
    CASE f = "find" -> "stop"
      [] f = "proc_pid_maps" -> "objfile"
      [] f = "info_sharedlibrary" -> "objfile"
      [] f = "info_files" -> "objfile"
      [] f = "info_auxv" -> "exit"
      [] f = "check_aslr" -> "exit"

\* The decorator of each memoized function.
ResetKind(f) ==
    CASE f = "find" -> "stop"
      [] f = "proc_pid_maps" -> "stop"
      [] f = "info_sharedlibrary" -> "objfile"
      [] f = "info_files" -> "objfile"
      [] f = "info_auxv" -> "exit"
      [] f = "check_aslr" -> "exit"

Reset(memo, kind) ==
    [f \in Funcs |-> IF ResetKind(f) = kind THEN NoCache ELSE memo[f]]

(***************************************************************************)
(* The environment of a call: what the collaborators answer.               *)
(*   mapped    the pages of the target that can be read (pwndbg.memory)    *)
(*   readable  the candidate maps paths (by index) pwndbg.file.get reads   *)
(*   gdb       "error" when the info commands fail, else which objects     *)
(*             the reports list                                            *)
(*   poke, nx  pwndbg.memory.poke's answer and pwndbg.stack.nx             *)
(*   toggle    randomize_va_space: "unreadable", or its content            *)
(*   setting   what show disable-randomization reports: "on" or "off"      *)
(*   auxv      pwndbg.auxv.get()                                           *)
(*   stacks    pwndbg.stack.stacks.values()                                *)
(***************************************************************************)
Env(mapped, readable, gdb, probe, aslrIn, auxv, stacks) ==
    [mapped |-> mapped, readable |-> readable, gdb |-> gdb,
     poke |-> probe.poke, nx |-> probe.nx,
     toggle |-> aslrIn.toggle, setting |-> aslrIn.setting,
     auxv |-> auxv, stacks |-> stacks]

\* pwndbg.memory.peek
peek(E, addr) == (addr \div PAGE_SIZE) \in E.mapped

\* pwndbg.memory.find_lower_boundary / find_upper_boundary: the extent of
\* the run of readable pages around addr, searched page by page.
find_lower_boundary(E, addr) ==
    LET p == addr \div PAGE_SIZE
        run == {q \in FirstPage..p : \A k \in q..p : k \in E.mapped}
    IN IF run = {} THEN page_align(addr) ELSE Min(run) * PAGE_SIZE

find_upper_boundary(E, addr) ==
    LET p == addr \div PAGE_SIZE
        stop == {q \in p..(MaxPage + 1) : q \notin E.mapped}
    IN Min(stop) * PAGE_SIZE

\* pwndbg.elf.map: the Pages of one object, given an address inside it.
ElfMap(addr, obj) == <<Page(page_align(addr), PAGE_SIZE, READ + EXEC, 0, obj)>>

(***************************************************************************)
(* find_boundaries                                                         *)
(***************************************************************************)
find_boundaries(c, E, addr, name) ==
    LET start == find_lower_boundary(E, addr)
        end == find_upper_boundary(E, addr)
    IN Ret([c EXCEPT !.calls = @ \cup {"find_boundaries"},
                     !.bsearch = @ \cup {<<addr, name>>}],
           Page(start, end - start, READ, 0, name))

(***************************************************************************)
(* proc_pid_maps                                                           *)
(***************************************************************************)
locations == <<"/proc/%s/maps", "/proc/%s/map", "/usr/compat/linux/proc/%s/maps">>

\* The maximal runs of mapped pages, lowest first.
RECURSIVE RunsFrom(_, _)
RunsFrom(mapped, p) ==
    IF p > MaxPage THEN <<>>
    ELSE IF p \notin mapped THEN RunsFrom(mapped, p + 1)
    ELSE LET q == Min({k \in p..(MaxPage + 1) : k \notin mapped})
         IN <<<<p, q>>>> \o RunsFrom(mapped, q)

\* What the kernel writes to the maps file: one line per run.
MapsLine(run) ==
    [maps |-> <<run[1] * PAGE_SIZE, run[2] * PAGE_SIZE>>,
     perm |-> <<"r", "w", "-", "p">>, offset |-> 0, dev |-> "00:00",
     inode_objfile |-> <<"0">>]

MapsData(mapped) ==
    LET runs == RunsFrom(mapped, FirstPage)
    IN [i \in 1..Len(runs) |-> MapsLine(runs[i])]

Has(perm, ch) == \E i \in 1..Len(perm) : perm[i] = ch

\* The parsing of a line, had 'w' and 'x' been given each other's bit.
ParseMapsLineSwapped(line) ==
    LET objfile == IF Len(line.inode_objfile) = 2 THEN line.inode_objfile[2] ELSE ""
        start == line.maps[1]
        stop == line.maps[2]
        size == stop - start
        flags == (IF Has(line.perm, "r") THEN READ ELSE 0)
                 + (IF Has(line.perm, "w") THEN EXEC ELSE 0)
                 + (IF Has(line.perm, "x") THEN WRITE ELSE 0)
    IN Page(start, size, flags, line.offset, objfile)

ParseMapsLine(line) ==
    LET objfile == IF Len(line.inode_objfile) = 2 THEN line.inode_objfile[2] ELSE ""
        start == line.maps[1]
        stop == line.maps[2]
        size == stop - start
        flags == (IF Has(line.perm, "r") THEN READ ELSE 0)
                 + (IF Has(line.perm, "w") THEN WRITE ELSE 0)
                 + (IF Has(line.perm, "x") THEN EXEC ELSE 0)
    IN Page(start, size, flags, line.offset, objfile)

\* A candidate path that pwndbg.file.get cannot read raises OSError or
\* gdb.error; a readable one yields its lines.
Unreadable == [ok |-> FALSE, data |-> <<>>]

\* The loop over the candidate paths, had it no 'break': the last readable
\* path would be the one parsed.
RECURSIVE try_locations_no_break(_, _)
try_locations_no_break(files, i) ==
    IF i > Len(locations) THEN [read |-> <<>>, found |-> FALSE, data |-> <<>>]
    ELSE LET r == try_locations_no_break(files, i + 1)
         IN IF files[i].ok /\ ~r.found
            THEN [read |-> <<i>> \o r.read, found |-> TRUE, data |-> files[i].data]
            ELSE [r EXCEPT !.read = <<i>> \o @]

\* The loop over the candidate paths from the i-th on: the paths handed to
\* pwndbg.file.get, whether one was read, and the data of that one.
RECURSIVE try_locations(_, _)
try_locations(files, i) ==
    IF i > Len(locations) THEN [read |-> <<>>, found |-> FALSE, data |-> <<>>]
    ELSE IF files[i].ok
         THEN [read |-> <<i>>, found |-> TRUE, data |-> files[i].data]
         ELSE LET r == try_locations(files, i + 1)
              IN [r EXCEPT !.read = <<i>> \o @]

\* The body of proc_pid_maps on the files behind the candidate paths.
proc_pid_maps_pages(files) ==
    LET t == try_locations(files, 1)
    IN IF ~t.found THEN <<>>
       ELSE [i \in 1..Len(t.data) |-> ParseMapsLine(t.data[i])]

proc_pid_maps_body(c, E) ==
    LET files == [i \in 1..Len(locations) |->
                    IF i \in E.readable
                    THEN [ok |-> TRUE, data |-> MapsData(E.mapped)]
                    ELSE Unreadable]
    IN Ret(Called(c, "file.get"), proc_pid_maps_pages(files))

proc_pid_maps(c, E) ==
    IF Cached(c, "proc_pid_maps", <<>>) THEN Hit(c, "proc_pid_maps", <<>>)
    ELSE Store(proc_pid_maps_body(Called(c, "proc_pid_maps"), E), "proc_pid_maps", <<>>)

(***************************************************************************)
(* The text reports of the debugger.  gdb.execute raises gdb.error when    *)
(* the command fails.                                                      *)
(***************************************************************************)
Hex(n) == [kind |-> "hex", val |-> n, text |-> ""]
Word(w) == [kind |-> "word", val |-> 0, text |-> w]
Tick(w) == [kind |-> "tick", val |-> 0, text |-> w]

\* line.startswith('0x') and line.startswith('`')
StartsWithHex(line) == line # <<>> /\ line[1].kind = "hex"
StartsWithTick(line) == line # <<>> /\ line[1].kind = "tick"

\* Where the reports place the executable and the library (above the pages
\* that are probed), and the vdso.
ExeAddr == (MaxPage + 1) * PAGE_SIZE + 1024
LibAddr == (MaxPage + 2) * PAGE_SIZE + 1024
VdsoAddr == FirstPage * PAGE_SIZE
ExeName == "/bin/exe"
LibName == "/lib/libc.so"

SharedLibraryReport(gdb) ==
    <<<<Word("From"), Word("To"), Word("Syms"), Word("Read"), Word("Library")>>>>
    \o (IF gdb = "libs"
        THEN <<<<Hex(LibAddr), Hex(LibAddr + 256), Word("Yes"), Word(LibName)>>>>
        ELSE <<>>)
    \o <<<<Word("(*):"), Word("missing")>>>>

FilesReport(gdb) ==
    <<<<Word("Symbols"), Word("from"), Word(ExeName)>>,
      <<Tick(ExeName), Word("file"), Word("type"), Word("elf64-x86-64.")>>,
      <<Word("Entry"), Word("point:"), Hex(ExeAddr)>>,
      <<Hex(ExeAddr), Word("-"), Hex(ExeAddr + 256), Word("is"), Word(".text")>>,
      <<Hex(ExeAddr + 256), Word("-"), Hex(ExeAddr + 512), Word("is"), Word(".data")>>>>
    \o (IF gdb = "libs"
        THEN <<<<Hex(LibAddr), Word("-"), Hex(LibAddr + 256), Word("is"),
                 Word(".text"), Word("in"), Word(LibName)>>,
               <<Hex(LibAddr + 256), Word("-"), Hex(LibAddr + 512), Word("is"),
                 Word(".data"), Word("in"), Word(LibName)>>>>
        ELSE <<>>)

(***************************************************************************)
(* info_sharedlibrary                                                      *)
(***************************************************************************)
RECURSIVE SharedLibraryPages(_)
SharedLibraryPages(lines) ==
    IF lines = <<>> THEN <<>>
    ELSE LET line == Head(lines)
         IN IF ~StartsWithHex(line) THEN SharedLibraryPages(Tail(lines))
            ELSE LET text == line[1].val
                     obj == line[Len(line)].text
                 IN ElfMap(text, obj) \o SharedLibraryPages(Tail(lines))

info_sharedlibrary_body(c, E) ==
    LET c1 == Called(c, "gdb.execute")
    IN IF E.gdb = "error" THEN Ret(Raise(c1), <<>>)
       ELSE LET pages == SharedLibraryPages(SharedLibraryReport(E.gdb))
            IN Ret(IF pages = <<>> THEN c1 ELSE Called(c1, "elf.map"), Sort(pages))

info_sharedlibrary(c, E) ==
    IF Cached(c, "info_sharedlibrary", <<>>) THEN Hit(c, "info_sharedlibrary", <<>>)
    ELSE Store(info_sharedlibrary_body(Called(c, "info_sharedlibrary"), E),
               "info_sharedlibrary", <<>>)

(***************************************************************************)
(* info_files                                                              *)
(***************************************************************************)
\* line.split(None, 6): at most seven fields, the seventh takes the rest.
FieldCount(line) == IF Len(line) > 7 THEN 7 ELSE Len(line)

\* The loop of info_files, had it not skipped the objects already seen.
RECURSIVE FilesLoopNoSeen(_, _)
FilesLoopNoSeen(lines, st) ==
    IF lines = <<>> THEN st
    ELSE LET line == Head(lines)
             rest == Tail(lines)
         IN IF StartsWithTick(line)
            THEN FilesLoopNoSeen(rest, [st EXCEPT !.main_exe = line[1].text])
            ELSE IF ~StartsWithHex(line) THEN FilesLoopNoSeen(rest, st)
            ELSE IF FieldCount(line) \notin {5, 7}
            THEN FilesLoopNoSeen(rest, [st EXCEPT !.bad = @ + 1])
            ELSE LET vaddr == line[1].val
                     objfile == IF FieldCount(line) = 5 THEN st.main_exe
                                ELSE line[7].text
                 IN FilesLoopNoSeen(rest,
                        [st EXCEPT !.seen_files = @ \cup {objfile},
                                   !.pages = @ \o ElfMap(vaddr, objfile),
                                   !.mapped = Append(@, <<vaddr, objfile>>)])

\* The loop of info_files over the lines; st = [seen_files, pages, main_exe].
RECURSIVE FilesLoop(_, _)
FilesLoop(lines, st) ==
    IF lines = <<>> THEN st
    ELSE LET line == Head(lines)
             rest == Tail(lines)
         IN IF StartsWithTick(line)
            THEN FilesLoop(rest, [st EXCEPT !.main_exe = line[1].text])
            ELSE IF ~StartsWithHex(line) THEN FilesLoop(rest, st)
            ELSE IF FieldCount(line) \notin {5, 7}
            THEN FilesLoop(rest, [st EXCEPT !.bad = @ + 1])
            ELSE LET vaddr == line[1].val
                     objfile == IF FieldCount(line) = 5 THEN st.main_exe
                                ELSE line[7].text
                 IN IF objfile \in st.seen_files THEN FilesLoop(rest, st)
                    ELSE FilesLoop(rest,
                           [st EXCEPT !.seen_files = @ \cup {objfile},
                                      !.pages = @ \o ElfMap(vaddr, objfile),
                                      !.mapped = Append(@, <<vaddr, objfile>>)])

FilesParse(lines) ==
    FilesLoop(lines, [seen_files |-> {}, pages |-> <<>>, main_exe |-> "",
                      bad |-> 0, mapped |-> <<>>])

info_files_body(c, E) ==
    LET c1 == Called(c, "gdb.execute")
    IN IF E.gdb = "error" THEN Ret(Raise(c1), <<>>)
       ELSE LET pages == FilesParse(FilesReport(E.gdb)).pages
            IN Ret(IF pages = <<>> THEN c1 ELSE Called(c1, "elf.map"), pages)

info_files(c, E) ==
    IF Cached(c, "info_files", <<>>) THEN Hit(c, "info_files", <<>>)
    ELSE Store(info_files_body(Called(c, "info_files"), E), "info_files", <<>>)

(***************************************************************************)
(* info_auxv.  auxv is "none" when pwndbg.auxv.get() has nothing, else the *)
(* record of its entries (0 for an entry that is absent).                  *)
(***************************************************************************)
NoAuxv == [present |-> FALSE, AT_EXECFN |-> "", AT_ENTRY |-> 0,
           AT_SYSINFO_EHDR |-> 0, AT_PHDR |-> 0]

Auxv(execfn, entry, vdso, phdr) ==
    [present |-> TRUE, AT_EXECFN |-> execfn, AT_ENTRY |-> entry,
     AT_SYSINFO_EHDR |-> vdso, AT_PHDR |-> phdr]

\* The end of info_auxv, had the vdso been recorded the way explore records
\* what it probes.
info_auxv_vdso_recorded(exe, b) ==
    Ret([b.c EXCEPT !.explored = Append(@, b.v)], Sort(Append(exe, b.v)))

\* The end of info_auxv: b is what find_boundaries returned for the vdso.
info_auxv_vdso(exe, b) == Ret(b.c, Sort(Append(exe, b.v)))

info_auxv_body(c, E) ==
    LET auxv == E.auxv
        c1 == Called(c, "auxv.get")
    IN IF ~auxv.present THEN Ret(c1, <<>>)
       ELSE LET exe_name == IF auxv.AT_EXECFN # "" THEN auxv.AT_EXECFN ELSE "main.exe"
                entry == auxv.AT_ENTRY
                vdso == auxv.AT_SYSINFO_EHDR
                phdr == auxv.AT_PHDR
                hasExe == entry # 0 \/ phdr # 0
                exe == IF hasExe
                       THEN ElfMap(IF entry # 0 THEN entry ELSE phdr, exe_name)
                       ELSE <<>>
                c2 == IF hasExe THEN Called(c1, "elf.map") ELSE c1
            IN IF vdso # 0
               THEN info_auxv_vdso(exe, find_boundaries(c2, E, vdso, "[vdso]"))
               ELSE Ret(c2, Sort(exe))

info_auxv(c, E) ==
    IF Cached(c, "info_auxv", <<>>) THEN Hit(c, "info_auxv", <<>>)
    ELSE Store(info_auxv_body(Called(c, "info_auxv"), E), "info_auxv", <<>>)

(***************************************************************************)
(* get                                                                     *)
(***************************************************************************)
\* The end of get(), had the sort come before the Exploration Cache is
\* appended.
get_end_sorted_early(pages, r3, E) ==
    IF r3.c.exc THEN Ret(r3.c, <<>>)
    ELSE Ret(Called(r3.c, "stacks"),
             Sort(pages \o r3.v \o E.stacks) \o r3.c.explored)

\* get() is written as its steps, each taking what the calls before it
\* returned: r1 from proc_pid_maps, r2 from info_auxv, r3 from
\* info_sharedlibrary or info_files.
get_end(pages, r3, E) ==
    IF r3.c.exc THEN Ret(r3.c, <<>>)
    ELSE Ret(Called(r3.c, "stacks"),
             Sort(pages \o r3.v \o E.stacks \o r3.c.explored))

get_fallback(r2, E) ==
    get_end(r2.v,
            IF r2.v # <<>> THEN info_sharedlibrary(r2.c, E) ELSE info_files(r2.c, E),
            E)

\* get(), had the stacks been appended outside the fallback branch.
get_chain_with_stacks(r1, E) ==
    IF r1.v # <<>>
    THEN Ret(Called(r1.c, "stacks"), Sort(r1.v \o E.stacks \o r1.c.explored))
    ELSE get_fallback(info_auxv(r1.c, E), E)

get_chain(r1, E) ==
    IF r1.v # <<>>
    THEN Ret(r1.c, Sort(r1.v \o r1.c.explored))
    ELSE get_fallback(info_auxv(r1.c, E), E)

get(c, E) == get_chain(proc_pid_maps(c, E), E)

(***************************************************************************)
(* explore                                                                 *)
(***************************************************************************)
\* The end of explore, had the Page replaced the list instead of joining it.
explore_record_replacing(b, flags) ==
    Ret([b.c EXCEPT !.explored = <<[b.v EXCEPT !.flags = flags]>>],
        <<[b.v EXCEPT !.flags = flags]>>)

\* The end of explore: b is what find_boundaries returned.
explore_record(b, flags) ==
    Ret([b.c EXCEPT !.explored = Append(@, [b.v EXCEPT !.flags = flags])],
        <<[b.v EXCEPT !.flags = flags]>>)

\* explore, had it set the execute bit when the stack is non-executable.
explore_exec_when_nx(c, E, address_maybe) ==
    LET addr == page_align(address_maybe)
        c1 == [c EXCEPT !.calls = @ \cup {"explore", "peek"}]
        flags0 == IF peek(E, addr) THEN READ ELSE 0
    IN IF flags0 = 0 THEN Ret(c1, NoPage)
       ELSE LET c2 == [c1 EXCEPT !.calls = @ \cup {"poke"}]
                flags == flags0 + (IF E.poke THEN WRITE ELSE 0)
                                + (IF E.nx THEN EXEC ELSE 0)
            IN explore_record(find_boundaries(c2, E, addr, ""), flags)

explore(c, E, address_maybe) ==
    LET addr == page_align(address_maybe)
        c1 == [c EXCEPT !.calls = @ \cup {"explore", "peek"}]
        flags0 == IF peek(E, addr) THEN READ ELSE 0
    IN IF flags0 = 0 THEN Ret(c1, NoPage)
       ELSE LET c2 == [c1 EXCEPT !.calls = @ \cup {"poke"}]
                flags == flags0 + (IF E.poke THEN WRITE ELSE 0)
                                + (IF ~E.nx THEN EXEC ELSE 0)
            IN explore_record(find_boundaries(c2, E, addr, ""), flags)

(***************************************************************************)
(* find                                                                    *)
(***************************************************************************)
\* The guard of find, had it tested for None only.
FindRejectsNoneOnly(address) == address = None

FindRejects(address) == address = None \/ address < MMAP_MIN_ADDR

\* The loop of find, had it compared the address with the start of each Page.
find_scan_by_start(g, E, address) ==
    LET hits == {i \in 1..Len(g.v) : g.v[i].start = address}
    IN IF g.c.exc THEN Ret(g.c, NoPage)
       ELSE IF hits # {} THEN Ret(g.c, <<g.v[Min(hits)]>>)
       ELSE explore(g.c, E, address)

\* The loop of find over what get() returned (g): the first Page that
\* contains the address, else explore.
find_scan(g, E, address) ==
    LET hits == {i \in 1..Len(g.v) : Contains(g.v[i], address)}
    IN IF g.c.exc THEN Ret(g.c, NoPage)
       ELSE IF hits # {} THEN Ret(g.c, <<g.v[Min(hits)]>>)
       ELSE explore(g.c, E, address)

find_body(c, E, address) ==
    IF FindRejects(address) THEN Ret(c, NoPage)
    ELSE find_scan(get(Called(c, "get"), E), E, address)

find(c, E, address) ==
    IF Cached(c, "find", <<address>>) THEN Hit(c, "find", <<address>>)
    ELSE Store(find_body(Called(c, "find"), E, address), "find", <<address>>)

\* explore_registers: find() on every common register, in order.
RECURSIVE explore_registers(_, _, _)
\* The loop of explore_registers, had it ended after the first register.
explore_registers_first_only(r, E, regs) == r

explore_registers_next(r, E, regs) ==
    IF r.c.exc THEN r ELSE explore_registers(r.c, E, regs)

explore_registers(c, E, regs) ==
    IF regs = <<>> THEN Ret(c, NoPage)
    ELSE explore_registers_next(find(c, E, Head(regs)), E, Tail(regs))

(***************************************************************************)
(* check_aslr                                                              *)
(***************************************************************************)
\* What pwndbg.file.get returns for randomize_va_space, as characters:
\* nothing when the file cannot be read (data stays b'').
ToggleData(toggle) ==
    IF toggle = "unreadable" THEN <<>> ELSE <<toggle, "\n">>

\* What gdb prints for show disable-randomization, as words.
ShowDisableRandomization(setting) ==
    <<"Disabling", "randomization", "of", "debuggee's", "virtual", "address",
      "space", "is", IF setting = "on" THEN "on." ELSE "off.">>

\* b'0' in data
HasZero(data) == \E i \in 1..Len(data) : data[i] = "0"

\* "is off." in output
HasIsOff(output) ==
    \E i \in 1..(Len(output) - 1) : output[i] = "is" /\ output[i + 1] = "off."

\* "is on." in output
HasIsOn(output) ==
    \E i \in 1..(Len(output) - 1) : output[i] = "is" /\ output[i + 1] = "on."

\* check_aslr, had it looked for "is on.".
check_aslr_body_is_on(c, E) ==
    LET c1 == [c EXCEPT !.aslr = FALSE, !.calls = @ \cup {"file.get"}]
        data == ToggleData(E.toggle)
    IN IF HasZero(data) THEN Ret(c1, "None")
       ELSE LET c2 == Called(c1, "gdb.execute")
            IN IF HasIsOn(ShowDisableRandomization(E.setting))
               THEN Ret([c2 EXCEPT !.aslr = TRUE], "True")
               ELSE Ret(c2, "False")

\* check_aslr, had it gone on to ask the debugger after finding "0".
check_aslr_body_no_return(c, E) ==
    LET c1 == [c EXCEPT !.aslr = FALSE, !.calls = @ \cup {"file.get"}]
        c2 == Called(c1, "gdb.execute")
    IN IF HasIsOff(ShowDisableRandomization(E.setting))
       THEN Ret([c2 EXCEPT !.aslr = TRUE], "True")
       ELSE Ret(c2, "False")

check_aslr_body(c, E) ==
    LET c1 == [c EXCEPT !.aslr = FALSE, !.calls = @ \cup {"file.get"}]
        data == ToggleData(E.toggle)
    IN IF HasZero(data) THEN Ret(c1, "None")
       ELSE LET c2 == Called(c1, "gdb.execute")
            IN IF HasIsOff(ShowDisableRandomization(E.setting))
               THEN Ret([c2 EXCEPT !.aslr = TRUE], "True")
               ELSE Ret(c2, "False")

check_aslr(c, E) ==
    IF Cached(c, "check_aslr", <<>>) THEN Hit(c, "check_aslr", <<>>)
    ELSE Store(check_aslr_body(Called(c, "check_aslr"), E), "check_aslr", <<>>)

\* clear_explored_pages, the exit handler.
clear_explored_pages(c) == [c EXCEPT !.explored = <<>>]

(***************************************************************************)
(* The state.                                                              *)
(*   memo            the caches of the memoized functions                  *)
(*   explored_pages  the Exploration Cache                                 *)
(*   aslr            the stored ASLR flag                                  *)
(*   auxv            the auxiliary vector of the inspected process         *)
(*   stacks          the stack Pages the stack provider holds              *)
(* and, to state the properties, history the program does not keep:        *)
(*   evt             "stop" or "objfile" while no get() has run since the  *)
(*                   latest stop or new-objfile event, else "none"         *)
(*   old             while evt is not "none": the strategies whose cache   *)
(*                   was filled before that event                          *)
(*   last            the latest operation, its argument and its result     *)
(***************************************************************************)
VARIABLES memo, explored_pages, aslr, auxv, stacks, evt, old, last

vars == <<memo, explored_pages, aslr, auxv, stacks, evt, old, last>>

Strategies == {"proc_pid_maps", "info_auxv", "info_sharedlibrary", "info_files"}

Ctx == [memo |-> memo, explored |-> explored_pages, aslr |-> aslr,
        calls |-> {}, bsearch |-> {}, reused |-> {}, fresh |-> {}, exc |-> FALSE]

Filled(m) == {f \in Strategies : m[f] # NoCache}

(***************************************************************************)
(* The inputs the operations are called with.                              *)
(***************************************************************************)
MappedIn == SUBSET Pages
ReadableIn == {{}, {1}}
\* The addresses looked up: None, one below the minimum, one inside the
\* highest page.
AddrIn == {None, MMAP_MIN_ADDR - 1, AddrOf(MaxPage)}
RegsIn == {<<AddrOf(MaxPage), None>>, <<MMAP_MIN_ADDR - 1, AddrOf(MaxPage)>>}
NoProbe == [poke |-> FALSE, nx |-> TRUE]
Writable == [poke |-> TRUE, nx |-> TRUE]
AslrIn == [toggle : {"unreadable", "0", "2"}, setting : {"on", "off"}]
NoAslrIn == [toggle |-> "unreadable", setting |-> "on"]
AuxvIn == {NoAuxv, Auxv(ExeName, ExeAddr, VdsoAddr, 0)}
StackPage == Page((MaxPage + 3) * PAGE_SIZE, PAGE_SIZE, READ + WRITE, 0, "[stack]")
StacksIn == {<<>>, <<StackPage>>}

\* The state after import, for a process whose auxiliary vector is one of
\* auxvs.
InitIn(auxvs) ==
    /\ memo = [f \in Funcs |-> NoCache]
    /\ explored_pages = <<>>
    /\ aslr = FALSE
    /\ auxv \in auxvs
    /\ stacks = <<>>
    /\ evt = "none"
    /\ old = {}
    /\ last = [op |-> "init", arg |-> None, ret |-> <<>>, exc |-> FALSE,
               after |-> "none"]

Init == InitIn({NoAuxv})

InitChain == InitIn(AuxvIn)

\* What an operation that returned r leaves behind.
Leaves(r, op, arg) ==
    [op |-> op, arg |-> arg, ret |-> r.v, exc |-> r.c.exc, after |-> evt]

Commit(r) ==
    /\ Len(r.c.explored) <= MaxExplored
    /\ memo' = r.c.memo
    /\ explored_pages' = r.c.explored
    /\ aslr' = r.c.aslr

(***************************************************************************)
(* The operations.  Each is the call of its function on the current state  *)
(* (Ctx); the operator named ...Done takes what the call returned.         *)
(***************************************************************************)
GetDone(r) ==
    /\ Commit(r)
    /\ last' = Leaves(r, "get", None)
    /\ evt' = "none"
    /\ old' = {}
    /\ UNCHANGED <<auxv, stacks>>

Get(E) == GetDone(get(Ctx, E))

FindDone(r, a) ==
    /\ Commit(r)
    /\ last' = Leaves(r, "find", a)
    /\ evt' = IF "get" \in r.c.calls THEN "none" ELSE evt
    /\ old' = IF "get" \in r.c.calls THEN {} ELSE old
    /\ UNCHANGED <<auxv, stacks>>

Find(E, a) == FindDone(find(Ctx, E, a), a)

ExploreDone(r, a) ==
    /\ Commit(r)
    /\ last' = Leaves(r, "explore", a)
    /\ UNCHANGED <<auxv, stacks, evt, old>>

Explore(E, a) == ExploreDone(explore(Ctx, E, a), a)

CheckAslrDone(r) ==
    /\ Commit(r)
    /\ last' = Leaves(Ret(r.c, <<r.v>>), "check_aslr", None)
    /\ UNCHANGED <<auxv, stacks, evt, old>>

CheckAslr(E) == CheckAslrDone(check_aslr(Ctx, E))

\* The stop event: the caches reset on stop are emptied, the stack provider
\* refreshes its Pages, then explore_registers runs (a find() in it that
\* calls get() is the next get() after the event).
StopDone(r, E, regs) ==
    /\ Commit(r)
    /\ stacks' = E.stacks
    /\ last' = Leaves(Ret(r.c, regs), "stop", None)
    /\ evt' = IF "get" \in r.c.calls THEN "none" ELSE "stop"
    /\ old' = IF "get" \in r.c.calls THEN {} ELSE Filled(r.c.memo) \ r.c.fresh
    /\ UNCHANGED auxv

Stop(E, regs) ==
    StopDone(explore_registers([Ctx EXCEPT !.memo = Reset(memo, "stop")], E, regs),
             E, regs)

\* The new-objfile event: the caches reset on a new object file are emptied,
\* then check_aslr runs.
NewObjfileDone(r) ==
    /\ Commit(r)
    /\ last' = Leaves(Ret(r.c, <<r.v>>), "new_objfile", None)
    /\ evt' = "objfile"
    /\ old' = Filled(r.c.memo) \ r.c.fresh
    /\ UNCHANGED <<auxv, stacks>>

NewObjfile(E) ==
    NewObjfileDone(check_aslr([Ctx EXCEPT !.memo = Reset(memo, "objfile")], E))

\* The exit event: the caches reset on exit are emptied and
\* clear_explored_pages runs; the next process has its own auxiliary vector.
ExitDone(c, newAuxv) ==
    /\ Commit(Ret(c, <<>>))
    /\ auxv' = newAuxv
    /\ last' = Leaves(Ret(c, <<>>), "exit", None)
    /\ old' = old \cap Filled(c.memo)
    /\ UNCHANGED <<stacks, evt>>

Exit(newAuxv) ==
    ExitDone(clear_explored_pages([Ctx EXCEPT !.memo = Reset(memo, "exit")]), newAuxv)

(***************************************************************************)
(* Spec: lookups and probing over a maps file that may or may not be       *)
(* readable, with the lifecycle events.  The process has no auxiliary      *)
(* vector and no shared library.                                           *)
(***************************************************************************)
Envs ==
    {Env(m, rd, "nolibs", Writable, NoAslrIn, auxv, stacks) :
        m \in MappedIn, rd \in ReadableIn}

ProbeEnvs ==
    {Env(m, {}, "nolibs", Writable, NoAslrIn, auxv, stacks) : m \in MappedIn}

Next ==
    \/ \E E \in Envs : Get(E)
    \/ \E E \in Envs, a \in AddrIn : Find(E, a)
    \/ \E E \in ProbeEnvs, a \in AddrIn \ {None} : Explore(E, a)
    \/ \E E \in Envs, regs \in RegsIn : Stop(E, regs)
    \/ \E E \in {Env({}, {}, "nolibs", NoProbe, NoAslrIn, auxv, stacks)} : NewObjfile(E)
    \/ Exit(NoAuxv)

Spec == Init /\ [][Next]_vars

(***************************************************************************)
(* SpecChain: the fallback chain of get() over every combination of        *)
(* sources, with the lifecycle events.  Registers hold nothing to look up. *)
(***************************************************************************)
ChainEnvs ==
    {Env(m, rd, g, Writable, NoAslrIn, auxv, stacks) :
        m \in MappedIn, rd \in ReadableIn, g \in {"error", "nolibs", "libs"}}

ChainStopEnvs ==
    {Env(m, rd, g, Writable, NoAslrIn, auxv, st) :
        m \in MappedIn, rd \in ReadableIn, g \in {"error", "nolibs", "libs"},
        st \in StacksIn}

NextChain ==
    \/ \E E \in ChainEnvs : Get(E)
    \/ \E E \in ProbeEnvs : Explore(E, AddrOf(MaxPage))
    \/ \E E \in ChainStopEnvs : Stop(E, <<None>>)
    \/ \E E \in {Env({}, {}, "nolibs", NoProbe, NoAslrIn, auxv, stacks)} : NewObjfile(E)
    \/ \E na \in AuxvIn : Exit(na)

SpecChain == InitChain /\ [][NextChain]_vars

(***************************************************************************)
(* SpecAslr: the ASLR detector over every toggle file and debugger         *)
(* setting, with probing and the lifecycle events.                         *)
(***************************************************************************)
AslrEnvs ==
    {Env({}, {}, "nolibs", NoProbe, ai, auxv, stacks) : ai \in AslrIn}

NextAslr ==
    \/ \E E \in AslrEnvs : CheckAslr(E)
    \/ \E E \in AslrEnvs : NewObjfile(E)
    \/ \E E \in ProbeEnvs : Explore(E, AddrOf(MaxPage))
    \/ \E E \in Envs : Stop(E, <<None>>)
    \/ Exit(NoAuxv)

SpecAslr == Init /\ [][NextAslr]_vars

(***************************************************************************)
(* SpecProbe: probing with every answer of the write probe and of the      *)
(* stack-non-executable signal, over a maps file that cannot be read.      *)
(***************************************************************************)
AllProbes == [poke : BOOLEAN, nx : BOOLEAN]

AllProbeEnvs ==
    {Env(m, {}, "nolibs", pr, NoAslrIn, auxv, stacks) :
        m \in MappedIn, pr \in AllProbes}

NextProbe ==
    \/ \E E \in AllProbeEnvs, a \in AddrIn \ {None} : Explore(E, a)
    \/ \E E \in AllProbeEnvs : Get(E)
    \/ Exit(NoAuxv)

SpecProbe == Init /\ [][NextProbe]_vars

(***************************************************************************)
(* SpecFiles: the parsing loop of info_files applied to every report of 1  *)
(* to MaxLines lines drawn from FileLines.  last.arg is the report,        *)
(* last.ret what the loop ended with: the Pages, the calls of the          *)
(* object-file mapper (mapped), the number of "Bad data" warnings (bad).   *)
(***************************************************************************)
OtherName == "/bin/other"

FileLines ==
    {<<Tick(ExeName), Word("file"), Word("type"), Word("elf64-x86-64.")>>,
     <<Tick(OtherName), Word("file"), Word("type"), Word("elf64-x86-64.")>>,
     <<Word("Entry"), Word("point:"), Hex(ExeAddr)>>,
     <<Hex(ExeAddr), Word("-"), Hex(ExeAddr + 256), Word("is"), Word(".text")>>,
     <<Hex(ExeAddr + 256), Word("-"), Hex(ExeAddr + 512), Word("is"), Word(".data")>>,
     <<Hex(LibAddr), Word("-"), Hex(LibAddr + 256), Word("is"), Word(".text"),
       Word("in"), Word(LibName)>>,
     <<Hex(LibAddr + 256), Word("-"), Hex(LibAddr + 512), Word("is"), Word(".got"),
       Word("in"), Word(ExeName)>>,
     <<Hex(LibAddr + 512), Word("-"), Hex(LibAddr + 768), Word("is"), Word(".bss"),
       Word("in")>>}

\* The report of the next call: the report of the call before it and one
\* more line.
Grown(line) ==
    IF last.op = "info_files" THEN Append(last.arg, line) ELSE <<line>>

ParseFiles(lines) ==
    /\ Len(lines) <= MaxLines
    /\ last' = [op |-> "info_files", arg |-> lines, ret |-> FilesParse(lines),
                exc |-> FALSE, after |-> evt]
    /\ UNCHANGED <<memo, explored_pages, aslr, auxv, stacks, evt, old>>

NextFiles == \E line \in FileLines : ParseFiles(Grown(line))

SpecFiles == Init /\ [][NextFiles]_vars

(***************************************************************************)
(* SpecMaps: the parsing of one line of the maps file, for every           *)
(* permission field, every extent within the pages of the model and the    *)
(* page after them, with and without a backing object.  last.arg is the    *)
(* line, last.ret the Page made from it.                                   *)
(***************************************************************************)
PermsIn ==
    {<<r, w, x, sh>> : r \in {"r", "-"}, w \in {"w", "-"}, x \in {"x", "-"},
                       sh \in {"p", "s"}}

ExtentsIn ==
    {<<a * PAGE_SIZE, b * PAGE_SIZE>> :
        a \in FirstPage..(MaxPage + 1), b \in (FirstPage + 1)..(MaxPage + 2)}

MapsLinesIn ==
    {[maps |-> m, perm |-> pm, offset |-> off, dev |-> "08:01", inode_objfile |-> io] :
        m \in {e \in ExtentsIn : e[1] < e[2]}, pm \in PermsIn,
        off \in {0, PAGE_SIZE}, io \in {<<"0">>, <<"418404", LibName>>}}

ParseMaps(line) ==
    /\ last' = [op |-> "proc_pid_maps", arg |-> line, ret |-> <<ParseMapsLine(line)>>,
                exc |-> FALSE, after |-> evt]
    /\ UNCHANGED <<memo, explored_pages, aslr, auxv, stacks, evt, old>>

NextMaps == \E line \in MapsLinesIn : ParseMaps(line)

SpecMaps == Init /\ [][NextMaps]_vars

(***************************************************************************)
(* The candidate paths of proc_pid_maps: each is unreadable or holds one   *)
(* line of a live process's maps file; the loop is run on them.            *)
(***************************************************************************)
MapsFilesIn ==
    {Unreadable} \cup
    {[ok |-> TRUE, data |-> <<l>>] :
        l \in {m \in MapsLinesIn : m.perm = <<"r", "-", "x", "p">> /\ m.offset = 0}}

ReadMaps(files) ==
    /\ last' = [op |-> "locations", arg |-> files,
                ret |-> [read |-> try_locations(files, 1).read,
                         pages |-> proc_pid_maps_pages(files)],
                exc |-> FALSE, after |-> evt]
    /\ UNCHANGED <<memo, explored_pages, aslr, auxv, stacks, evt, old>>

NextPaths == \E files \in [1..Len(locations) -> MapsFilesIn] : ReadMaps(files)

SpecPaths == Init /\ [][NextPaths]_vars

(***************************************************************************)
(* disasm/arm.py: DisassemblyAssistant.condition.  A register is a word of *)
(* 32 bits, bit 0 the lowest; a Python value is None, a bool or an int,    *)
(* and True is the int 1.                                                  *)
(***************************************************************************)
ARM_CC_EQ == 1
ARM_CC_NE == 2
ARM_CC_HS == 3
ARM_CC_LO == 4
ARM_CC_MI == 5
ARM_CC_PL == 6
ARM_CC_VS == 7
ARM_CC_VC == 8
ARM_CC_HI == 9
ARM_CC_LS == 10
ARM_CC_GE == 11
ARM_CC_LT == 12
ARM_CC_GT == 13
ARM_CC_LE == 14
ARM_CC_AL == 15

Zero32 == [i \in 0..31 |-> 0]

\* word & (1<<k)
Mask(word, k) == [i \in 0..31 |-> IF i = k THEN word[i] ELSE 0]

PyNone == [kind |-> "None", bits |-> Zero32]
PyInt(word) == [kind |-> "int", bits |-> word]
PyBool(b) == [kind |-> "bool", bits |-> [Zero32 EXCEPT ![0] = IF b THEN 1 ELSE 0]]

Truthy(v) == v.kind # "None" /\ v.bits # Zero32

py_not(a) == PyBool(~Truthy(a))
py_and(a, b) == IF Truthy(a) THEN b ELSE a
py_or(a, b) == IF Truthy(a) THEN a ELSE b
py_eq(a, b) == PyBool(a.bits = b.bits)
py_ne(a, b) == PyBool(a.bits # b.bits)

\* The dictionary of lines 53-68, every entry evaluated.
condition_table(cpsr) ==
    LET N == PyInt(Mask(cpsr, 31))
        Z == PyInt(Mask(cpsr, 30))
        C == PyInt(Mask(cpsr, 29))
        V == PyInt(Mask(cpsr, 28))
    IN (ARM_CC_EQ :> Z) @@ (ARM_CC_NE :> py_not(Z))
       @@ (ARM_CC_HS :> C) @@ (ARM_CC_LO :> py_not(C))
       @@ (ARM_CC_MI :> N) @@ (ARM_CC_PL :> py_not(N))
       @@ (ARM_CC_VS :> V) @@ (ARM_CC_VC :> py_not(V))
       @@ (ARM_CC_HI :> py_and(C, py_not(Z)))
       @@ (ARM_CC_LS :> py_or(Z, py_not(C)))
       @@ (ARM_CC_GE :> py_eq(N, V))
       @@ (ARM_CC_LT :> py_ne(N, V))
       @@ (ARM_CC_GT :> py_and(py_not(Z), py_eq(N, V)))
       @@ (ARM_CC_LE :> py_or(Z, py_ne(N, V)))

condition(instruction, regs) ==
    IF instruction.cc = ARM_CC_AL THEN PyNone
    ELSE IF instruction.address # regs.pc THEN PyBool(FALSE)
    ELSE LET table == condition_table(regs.cpsr)
         IN IF instruction.id \in DOMAIN table THEN table[instruction.id]
            ELSE PyNone

(***************************************************************************)
(* The processor stops with some flags in CPSR (user mode, ARM state) and  *)
(* condition() is asked about instructions at pc and after it.  The id of  *)
(* an instruction is the number of its opcode, which the decoder assigns   *)
(* independently of its condition code.                                    *)
(***************************************************************************)
Cpsr(n, z, c, v) ==
    [i \in 0..31 |->
        IF i = 31 THEN n ELSE IF i = 30 THEN z ELSE IF i = 29 THEN c
        ELSE IF i = 28 THEN v ELSE IF i = 4 THEN 1 ELSE 0]

RegsArmIn ==
    {[pc |-> MMAP_MIN_ADDR, cpsr |-> Cpsr(n, z, c, v)] :
        n \in 0..1, z \in 0..1, c \in 0..1, v \in 0..1}

InstructionsIn ==
    [cc : ARM_CC_EQ..ARM_CC_AL, id : 1..(ARM_CC_AL + 2),
     address : {MMAP_MIN_ADDR, MMAP_MIN_ADDR + 4}]

StopArm(regs) ==
    /\ last' = [op |-> "regs", arg |-> [regs |-> regs], ret |-> PyNone,
                exc |-> FALSE, after |-> evt]
    /\ UNCHANGED <<memo, explored_pages, aslr, auxv, stacks, evt, old>>

Condition(instruction) ==
    /\ last.op \in {"regs", "condition"}
    /\ last' = [op |-> "condition",
                arg |-> [regs |-> last.arg.regs, instruction |-> instruction],
                ret |-> condition(instruction, last.arg.regs),
                exc |-> FALSE, after |-> evt]
    /\ UNCHANGED <<memo, explored_pages, aslr, auxv, stacks, evt, old>>

NextArm ==
    \/ \E regs \in RegsArmIn : StopArm(regs)
    \/ \E instruction \in InstructionsIn : Condition(instruction)

SpecArm == Init /\ [][NextArm]_vars

(***************************************************************************)
(* Vocabulary of the properties.                                           *)
(***************************************************************************)
Range(s) == {s[i] : i \in 1..Len(s)}

Count(s, x) == Cardinality({i \in 1..Len(s) : s[i] = x})

\* s and t hold the same Pages, each as many times.
SameBag(s, t) ==
    /\ Len(s) = Len(t)
    /\ \A x \in Range(s) \cup Range(t) : Count(s, x) = Count(t, x)

SortedByStart(s) == \A i \in 1..(Len(s) - 1) : s[i].start <= s[i + 1].start

IsPrefix(s, t) == Len(s) <= Len(t) /\ \A i \in 1..Len(s) : s[i] = t[i]

\* g, what get() returned, holds a Page that contains a.
InMap(g, a) == ~g.c.exc /\ \E i \in 1..Len(g.v) : Contains(g.v[i], a)

\* r, what find() or explore() returned, is a Page that contains a.
Found(r, a) == ~r.c.exc /\ r.v # NoPage /\ Contains(r.v[1], a)

Valid(a) == a # None /\ a >= MMAP_MIN_ADDR

\* The Exploration Cache holds a Page around the page of a.
Explored(a) ==
    \E i \in 1..Len(explored_pages) : Contains(explored_pages[i], page_align(a))

(***************************************************************************)
(* C1.  Whenever a valid address a lies in some Page of what get() returns *)
(* now, find(a) called now returns a Page that contains a.                 *)
(* Stated as the claim states it; find() answers from its memo, which      *)
(* still holds "not found" from before the Page appeared.                  *)
(***************************************************************************)
C1_FindAnswersFromMap ==
    \A E \in Envs : \A a \in AddrIn :
        (Valid(a) /\ InMap(get(Ctx, E), a)) => Found(find(Ctx, E, a), a)

(***************************************************************************)
(* C2, as the claim states it: right after explore(a) has succeeded, a     *)
(* second explore(a) or a find(a) returns a Page of the Exploration Cache  *)
(* and runs no boundary search.                                            *)
(***************************************************************************)
FromCacheUnsearched(r) ==
    /\ r.c.bsearch = {}
    /\ r.v # NoPage
    /\ r.v[1] \in Range(explored_pages)

AnyReportEnvs ==
    {Env(m, rd, g, Writable, NoAslrIn, auxv, stacks) :
        m \in MappedIn, rd \in ReadableIn, g \in {"error", "nolibs", "libs"}}

FindWithoutProbe(r, a, E) ==
    /\ "explore" \notin r.c.calls
    /\ <<page_align(a), "">> \notin r.c.bsearch
    /\ r.c.explored = explored_pages
    /\ ("find" \notin r.c.reused /\ ~r.c.exc) =>
           Found(r, a) /\ r.v[1] \in Range(get(Ctx, E).v)

ExploreProbesAgain(r, a) ==
    /\ <<page_align(a), "">> \in r.c.bsearch
    /\ Len(r.c.explored) = Len(explored_pages) + 1
    /\ IsPrefix(explored_pages, r.c.explored)

C3_NothingOlderReused ==
    evt # "none" => \A E \in ChainEnvs : get(Ctx, E).c.reused \cap old = {}

(***************************************************************************)
(* C3 amended.  Each strategy is recomputed after the event its decorator  *)
(* names and after no other: the first get() after a stop event runs       *)
(* proc_pid_maps anew; the first get() after a new-objfile event reuses    *)
(* no info_sharedlibrary or info_files result from before the event; an    *)
(* info_auxv result, and after a stop event a report result, computed      *)
(* before the event may be reused.                                         *)
(***************************************************************************)
C3_RecomputedByScope ==
    /\ evt = "stop" =>
           \A E \in ChainEnvs : "proc_pid_maps" \notin get(Ctx, E).c.reused
    /\ evt = "objfile" =>
           \A E \in ChainEnvs :
               get(Ctx, E).c.reused \cap old
                   \cap {"info_sharedlibrary", "info_files"} = {}

\* A get() has just returned, the first since a stop event, over caches of
\* info_auxv and of a report parser that the event left filled.
C3_Witness ==
    /\ last.op = "get"
    /\ last.after = "stop"
    /\ ~last.exc
    /\ memo.proc_pid_maps # NoCache
    /\ memo.info_auxv # NoCache
    /\ memo.info_sharedlibrary # NoCache

(***************************************************************************)
(* C4.  Right after the exit event the Exploration Cache is empty, the     *)
(* stored ASLR flag is false, and check_aslr called now is not answered    *)
(* from its cache.  Stated as the claim states it; no exit handler         *)
(* touches the flag.                                                       *)
(***************************************************************************)
C4_CleanAfterExit ==
    last.op = "exit" =>
        /\ explored_pages = <<>>
        /\ aslr = FALSE
        /\ \A E \in AslrEnvs : "check_aslr" \notin check_aslr(Ctx, E).c.reused

(***************************************************************************)
(* C5.  Every step other than the exit event keeps the Exploration Cache   *)
(* as a prefix of its next value, and a successful explore() makes it one  *)
(* entry longer; the exit event empties it.                                *)
(***************************************************************************)
C5_AppendOnly ==
    [][IF last'.op = "exit"
       THEN explored_pages' = <<>>
       ELSE /\ IsPrefix(explored_pages, explored_pages')
            /\ (last'.op = "explore" /\ last'.ret # NoPage) =>
                   Len(explored_pages') = Len(explored_pages) + 1]_vars

\* A stop event has just been handled over an Exploration Cache of two
\* entries.
C5_Witness ==
    /\ last.op = "stop"
    /\ Len(explored_pages) = 2

(***************************************************************************)
(* C6.  Whenever proc_pid_maps yields a non-empty result, get() returns    *)
(* its Pages and the Pages of the Exploration Cache, each as many times as *)
(* it occurs there, and calls neither info_auxv, info_sharedlibrary,       *)
(* info_files nor the stack provider.                                      *)
(***************************************************************************)
OtherSources == {"info_auxv", "info_sharedlibrary", "info_files", "stacks"}

C6_ProcMapsAlone ==
    \A E \in ChainEnvs :
        proc_pid_maps(Ctx, E).v # <<>> =>
            /\ ~get(Ctx, E).c.exc
            /\ SameBag(get(Ctx, E).v, proc_pid_maps(Ctx, E).v \o explored_pages)
            /\ get(Ctx, E).c.calls \cap OtherSources = {}

\* A get() has just returned the Pages of the maps file and of the
\* Exploration Cache while the process has an auxiliary vector and a stack.
C6_Witness ==
    /\ last.op = "get"
    /\ ~last.exc
    /\ memo.proc_pid_maps # NoCache
    /\ memo.proc_pid_maps[<<>>] # <<>>
    /\ explored_pages # <<>>
    /\ SameBag(last.ret, memo.proc_pid_maps[<<>>] \o explored_pages)
    /\ auxv.present
    /\ stacks # <<>>

(***************************************************************************)
(* C7.  Whenever proc_pid_maps yields nothing, get() returns the Pages of  *)
(* info_auxv, of info_sharedlibrary if info_auxv yielded any Page and else *)
(* of info_files, of the stack provider and of the Exploration Cache, and  *)
(* calls exactly one of info_sharedlibrary and info_files.  A report that  *)
(* cannot be had counts as no Pages.  Stated as the claim states it; get() *)
(* raises when the report command fails.                                   *)
(***************************************************************************)
ReportOf(a, E) ==
    IF a.v # <<>> THEN info_sharedlibrary(a.c, E) ELSE info_files(a.c, E)

PagesOf(r) == IF r.c.exc THEN <<>> ELSE r.v

FallbackPages(a, E) == a.v \o PagesOf(ReportOf(a, E)) \o E.stacks \o explored_pages

OneReport(calls) ==
    ("info_sharedlibrary" \in calls) # ("info_files" \in calls)

C7_FallbackComposition ==
    \A E \in ChainEnvs :
        proc_pid_maps(Ctx, E).v = <<>> =>
            /\ ~get(Ctx, E).c.exc
            /\ SameBag(get(Ctx, E).v,
                       FallbackPages(info_auxv(proc_pid_maps(Ctx, E).c, E), E))
            /\ OneReport(get(Ctx, E).c.calls)

(***************************************************************************)
(* C7 where the report command succeeds: there get() returns the           *)
(* composition the claim states.                                           *)
(***************************************************************************)
C7_WhenReportSucceeds ==
    \A E \in ChainEnvs :
        (proc_pid_maps(Ctx, E).v = <<>> /\ E.gdb # "error") =>
            /\ ~get(Ctx, E).c.exc
            /\ SameBag(get(Ctx, E).v,
                       FallbackPages(info_auxv(proc_pid_maps(Ctx, E).c, E), E))
            /\ OneReport(get(Ctx, E).c.calls)

(***************************************************************************)
(* C8.  Every sequence get() returns is sorted by non-decreasing start and *)
(* holds each Page of each source it consulted (proc_pid_maps and the      *)
(* Exploration Cache, or info_auxv, one report, the stacks and the         *)
(* Exploration Cache) as many times as the sources hold it.                *)
(***************************************************************************)
SourcePages(E) ==
    IF proc_pid_maps(Ctx, E).v # <<>>
    THEN proc_pid_maps(Ctx, E).v \o explored_pages
    ELSE FallbackPages(info_auxv(proc_pid_maps(Ctx, E).c, E), E)

C8_SortedUnion ==
    \A E \in ChainEnvs :
        ~get(Ctx, E).c.exc =>
            /\ SortedByStart(get(Ctx, E).v)
            /\ SameBag(get(Ctx, E).v, SourcePages(E))

\* A get() has just returned four or more Pages of the fallback sources, two
\* of them equal: the duplicate is kept.
C8_Witness ==
    /\ last.op = "get"
    /\ ~last.exc
    /\ Len(last.ret) >= 4
    /\ memo.proc_pid_maps # NoCache
    /\ memo.proc_pid_maps[<<>>] = <<>>
    /\ \E i \in 1..(Len(last.ret) - 1) : last.ret[i] = last.ret[i + 1]

(***************************************************************************)
(* C9.  find(a) with a = None or a < MMAP_MIN_ADDR returns not-found,      *)
(* calls nothing (no get(), no strategy, no probe, no boundary search) and *)
(* leaves the Exploration Cache as it was.                                 *)
(***************************************************************************)
Rejected == {a \in AddrIn : a = None \/ a < MMAP_MIN_ADDR}

C9_RejectsWithoutEffect ==
    \A E \in Envs : \A a \in Rejected :
        /\ find(Ctx, E, a).v = NoPage
        /\ ~find(Ctx, E, a).c.exc
        /\ find(Ctx, E, a).c.calls \subseteq {"find"}
        /\ find(Ctx, E, a).c.bsearch = {}
        /\ find(Ctx, E, a).c.explored = explored_pages

\* A find() of the address below MMAP_MIN_ADDR has just returned not-found
\* over a non-empty Exploration Cache.
C9_Witness ==
    /\ last.op = "find"
    /\ last.arg = MMAP_MIN_ADDR - 1
    /\ last.ret = NoPage
    /\ explored_pages # <<>>

(***************************************************************************)
(* C10.  Whatever evidence is unavailable (no maps path readable, the      *)
(* report command failing), get() and find() return: no exception reaches  *)
(* their caller.  Stated as the claim states it; info_sharedlibrary and    *)
(* info_files do not catch the error of gdb.execute.                       *)
(***************************************************************************)
C10_FailureNeverPropagates ==
    \A E \in ChainEnvs :
        /\ ~get(Ctx, E).c.exc
        /\ ~find(Ctx, E, AddrOf(MaxPage)).c.exc

(***************************************************************************)
(* C11, as the claim states it: when check_aslr runs and the toggle file   *)
(* does not hold "0" (or cannot be read), the stored flag ends true        *)
(* exactly when gdb reports that disabling of randomization is on (the     *)
(* debugger has disabled randomization).                                   *)
(***************************************************************************)
CheckRuns(E) == E.toggle # "0" /\ ~Cached(Ctx, "check_aslr", <<>>)

C11_TrueWhenDebuggerDisabled ==
    \A E \in AslrEnvs :
        CheckRuns(E) => (check_aslr(Ctx, E).c.aslr <=> E.setting = "on")

(***************************************************************************)
(* C11 amended.  When check_aslr runs and the toggle file does not hold    *)
(* "0" (or cannot be read), the debugger is asked, and the stored flag and *)
(* the returned value are true exactly when gdb reports that disabling of  *)
(* randomization is off (the debugger has left randomization enabled), and *)
(* false otherwise.                                                        *)
(***************************************************************************)
C11_TrueWhenDisablingIsOff ==
    \A E \in AslrEnvs :
        CheckRuns(E) =>
            /\ ~check_aslr(Ctx, E).c.exc
            /\ "gdb.execute" \in check_aslr(Ctx, E).c.calls
            /\ check_aslr(Ctx, E).c.aslr <=> E.setting = "off"
            /\ check_aslr(Ctx, E).v = (IF E.setting = "off" THEN "True" ELSE "False")

\* A new-objfile event has just run the check, which reported true and left
\* the flag true.
C11_Witness ==
    /\ last.op = "new_objfile"
    /\ last.ret = <<"True">>
    /\ aslr = TRUE

(***************************************************************************)
(* C12.  When check_aslr runs and the toggle file holds "0", the stored    *)
(* flag ends false whatever gdb's setting is, also when it was true        *)
(* before, and the debugger is not asked.                                  *)
(***************************************************************************)
C12_SystemWideOff ==
    \A E \in AslrEnvs :
        (E.toggle = "0" /\ ~Cached(Ctx, "check_aslr", <<>>)) =>
            /\ ~check_aslr(Ctx, E).c.exc
            /\ check_aslr(Ctx, E).c.aslr = FALSE
            /\ "gdb.execute" \notin check_aslr(Ctx, E).c.calls

\* A check has just found "0" in the toggle file (it returned None) and the
\* flag is false.
C12_Witness ==
    /\ last.op \in {"check_aslr", "new_objfile"}
    /\ last.ret = <<"None">>
    /\ aslr = FALSE
    /\ memo.check_aslr # NoCache

(***************************************************************************)
(* C13.  explore(a) returns not-found and leaves the Exploration Cache as  *)
(* it was when the read probe at align_down(a) fails; otherwise the Page   *)
(* it returns has the READ bit, has the WRITE bit exactly when the write   *)
(* probe succeeds, and has the EXECUTE bit exactly when the                *)
(* stack-non-executable signal is false.                                   *)
(***************************************************************************)
Bit(flags, b) == (flags \div b) % 2 = 1

ProbedFlags(r, E) ==
    /\ r.v # NoPage
    /\ Bit(r.v[1].flags, READ)
    /\ Bit(r.v[1].flags, WRITE) <=> E.poke
    /\ Bit(r.v[1].flags, EXEC) <=> ~E.nx
    /\ r.v[1].flags < 2 * READ

C13_ExploreFlags ==
    \A E \in AllProbeEnvs : \A a \in AddrIn \ {None} :
        IF peek(E, page_align(a))
        THEN ProbedFlags(explore(Ctx, E, a), E)
        ELSE /\ explore(Ctx, E, a).v = NoPage
             /\ explore(Ctx, E, a).c.explored = explored_pages

\* An explore() has just returned a Page that is readable and executable
\* but not writable: the write probe failed and the stack is executable.
C13_Witness ==
    /\ last.op = "explore"
    /\ last.ret # NoPage
    /\ last.ret[1].flags = READ + EXEC
    /\ explored_pages # <<>>

(***************************************************************************)
(* C14.  info_files attributes an address line of 5 fields to the main     *)
(* executable named by the latest tick line before it (the empty name when *)
(* there is none) and a line of 7 fields to its seventh field; it counts   *)
(* an address line of any other length as bad data and goes on; it calls   *)
(* the object-file mapper once per distinct name, in the order of the      *)
(* lines, with the address of the first line attributed to that name; and  *)
(* the Pages it returns are those of these calls, in that order.           *)
(***************************************************************************)
Max(S) == CHOOSE x \in S : \A y \in S : y <= x

AddressLines(lines) == {i \in 1..Len(lines) : StartsWithHex(lines[i])}

GoodLines(lines) == {i \in AddressLines(lines) : Len(lines[i]) \in {5, 7}}

Ticks(lines, i) == {j \in 1..(i - 1) : StartsWithTick(lines[j])}

NameOf(lines, i) ==
    IF Len(lines[i]) = 7 THEN lines[i][7].text
    ELSE IF Ticks(lines, i) = {} THEN ""
    ELSE lines[Max(Ticks(lines, i))][1].text

FirstLines(lines) ==
    {i \in GoodLines(lines) :
        \A j \in GoodLines(lines) : j < i => NameOf(lines, j) # NameOf(lines, i)}

\* The k-th line of FirstLines, counted from 1.
Kth(lines, k) ==
    CHOOSE i \in FirstLines(lines) :
        Cardinality({j \in FirstLines(lines) : j < i}) = k - 1

C14_FilesAttribution ==
    last.op = "info_files" =>
        /\ Len(last.ret.mapped) = Cardinality(FirstLines(last.arg))
        /\ \A k \in 1..Len(last.ret.mapped) :
               /\ last.ret.mapped[k] = <<last.arg[Kth(last.arg, k)][1].val,
                                         NameOf(last.arg, Kth(last.arg, k))>>
               /\ last.ret.pages[k] =
                      ElfMap(last.ret.mapped[k][1], last.ret.mapped[k][2])[1]
        /\ Len(last.ret.pages) = Len(last.ret.mapped)
        /\ last.ret.bad =
               Cardinality(AddressLines(last.arg) \ GoodLines(last.arg))

\* A report has just been parsed in which a line of 5 fields follows the
\* tick line and a line of 7 fields names the executable again: the mapper
\* was called once, for the line of 5 fields.
C14_Witness ==
    /\ last.op = "info_files"
    /\ Len(last.arg) = 3
    /\ StartsWithTick(last.arg[1])
    /\ Len(last.arg[2]) = 5
    /\ Len(last.arg[3]) = 7
    /\ Len(last.ret.mapped) = 1
    /\ last.ret.mapped[1] = <<last.arg[2][1].val, ExeName>>

(***************************************************************************)
(* C15.  The Page made from a line of the maps file starts at the line's   *)
(* start, has size = stop - start, and has each of the READ, WRITE and     *)
(* EXECUTE bits exactly when r, w, x respectively occurs in the permission *)
(* field, and no other bit: the bits do not depend on each other nor on    *)
(* the sharing character.                                                  *)
(***************************************************************************)
C15_ParsedExtentAndFlags ==
    last.op = "proc_pid_maps" =>
        /\ last.ret[1].start = last.arg.maps[1]
        /\ last.ret[1].size = last.arg.maps[2] - last.arg.maps[1]
        /\ Bit(last.ret[1].flags, READ) <=> Has(last.arg.perm, "r")
        /\ Bit(last.ret[1].flags, WRITE) <=> Has(last.arg.perm, "w")
        /\ Bit(last.ret[1].flags, EXEC) <=> Has(last.arg.perm, "x")
        /\ last.ret[1].flags \in 0..(READ + WRITE + EXEC)

\* A shared, write-only line of two pages has just been parsed into a Page
\* whose only bit is WRITE.
C15_Witness ==
    /\ last.op = "proc_pid_maps"
    /\ last.arg.perm = <<"-", "w", "-", "s">>
    /\ last.ret[1].flags = WRITE
    /\ last.ret[1].size = 2 * PAGE_SIZE

(***************************************************************************)
(* C16.  get() and each Source Strategy, info_auxv with its boundary       *)
(* search for the vdso included, leave the Exploration Cache as it was;    *)
(* the only steps that change it are a successful explore(), which appends *)
(* the Page it returns, and the exit event, which empties it.              *)
(***************************************************************************)
LeavesExplored(r) == r.c.explored = explored_pages

StrategiesLeaveExplored ==
    \A E \in ChainEnvs :
        /\ LeavesExplored(get(Ctx, E))
        /\ LeavesExplored(proc_pid_maps(Ctx, E))
        /\ LeavesExplored(info_auxv(Ctx, E))
        /\ LeavesExplored(info_sharedlibrary(Ctx, E))
        /\ LeavesExplored(info_files(Ctx, E))

OnlyExploreAndExit ==
    explored_pages' # explored_pages =>
        \/ /\ last'.op = "explore"
           /\ last'.ret # NoPage
           /\ explored_pages' = Append(explored_pages, last'.ret[1])
        \/ /\ last'.op = "exit"
           /\ explored_pages' = <<>>

C16_ExploredFrame == []StrategiesLeaveExplored /\ [][OnlyExploreAndExit]_vars

\* A get() has just returned the probed [vdso] Page next to the one Page of
\* the Exploration Cache.
C16_Witness ==
    /\ last.op = "get"
    /\ ~last.exc
    /\ \E i \in 1..Len(last.ret) : last.ret[i].objfile = "[vdso]"
    /\ Len(explored_pages) = 1
    /\ "info_auxv" \notin old

(***************************************************************************)
(* C17.  Once the handlers of a stop event have run to their end, get()    *)
(* returns a map that holds, for each register whose value v is at least   *)
(* MMAP_MIN_ADDR and readable, a Page containing align_down(v), whatever   *)
(* the registers and the map were before the event and whatever the        *)
(* sources answer.                                                         *)
(***************************************************************************)
\* What the stop handlers return: the caches reset on stop are emptied, then
\* explore_registers runs.
StopHandled(E, regs) ==
    explore_registers([Ctx EXCEPT !.memo = Reset(memo, "stop")], E, regs)

RegistersMapped(E, regs) ==
    \A i \in 1..Len(regs) :
        (Valid(regs[i]) /\ peek(E, page_align(regs[i]))) =>
            InMap(get(StopHandled(E, regs).c, E), page_align(regs[i]))

C17_RegistersMapped ==
    \A E \in AnyReportEnvs : \A regs \in RegsIn :
        ~StopHandled(E, regs).c.exc => RegistersMapped(E, regs)

\* A stop event has just been handled with a register below MMAP_MIN_ADDR
\* and a register inside a readable page that no source listed: the page
\* was probed and find() holds the Page for the register.
C17_Witness ==
    /\ last.op = "stop"
    /\ last.ret = <<MMAP_MIN_ADDR - 1, AddrOf(MaxPage)>>
    /\ ~last.exc
    /\ Explored(AddrOf(MaxPage))
    /\ <<AddrOf(MaxPage)>> \in DOMAIN memo.find
    /\ Found(Ret(Ctx, memo.find[<<AddrOf(MaxPage)>>]), AddrOf(MaxPage))

(***************************************************************************)
(* C18.  find(a), for a valid address a that no Page of the map get()      *)
(* returns now contains, calls explore; when the read probe succeeds, one  *)
(* Page is appended to the Exploration Cache, find returns it, and every   *)
(* get() after it returns a map that holds it.  Stated as the claim states *)
(* it; find() answers from its memo without probing, and a later get()     *)
(* raises when the report command fails.                                   *)
(***************************************************************************)
Unlisted(E, a) == Valid(a) /\ ~get(Ctx, E).c.exc /\ ~InMap(get(Ctx, E), a)

ProbedAndKept(r, E, a) ==
    /\ "explore" \in r.c.calls
    /\ peek(E, page_align(a)) =>
           /\ r.c.explored = Append(explored_pages, r.v[1])
           /\ Found(r, a)

KeptLater(r, envs) ==
    \A E2 \in envs :
        \E i \in 1..Len(get(r.c, E2).v) :
            ~get(r.c, E2).c.exc /\ get(r.c, E2).v[i] = r.v[1]

C18_FindProbesOnce ==
    \A E \in Envs : \A a \in AddrIn :
        Unlisted(E, a) =>
            /\ ProbedAndKept(find(Ctx, E, a), E, a)
            /\ peek(E, page_align(a)) => KeptLater(find(Ctx, E, a), AnyReportEnvs)

(***************************************************************************)
(* C18 where find() is not answered from its memo and the later get()      *)
(* returns: there the claim holds.                                         *)
(***************************************************************************)
C18_WhenBodyRuns ==
    \A E \in Envs : \A a \in AddrIn :
        (Unlisted(E, a) /\ ~Cached(Ctx, "find", <<a>>)) =>
            /\ ProbedAndKept(find(Ctx, E, a), E, a)
            /\ peek(E, page_align(a)) => KeptLater(find(Ctx, E, a), Envs)

(***************************************************************************)
(* C19.  proc_pid_maps hands the candidate paths to pwndbg.file.get in the *)
(* listed order and stops at the first one that can be read: only that one *)
(* is parsed.  It returns the empty tuple, without raising, exactly when   *)
(* no candidate path can be read, after having tried them all.             *)
(***************************************************************************)
ReadablePaths(files) == {i \in 1..Len(locations) : files[i].ok}

ArmHolds(cc, cpsr) ==
    LET ge == cpsr[31] = cpsr[28]
    IN CASE cc = ARM_CC_GE -> ge
         [] cc = ARM_CC_LT -> ~ge
         [] cc = ARM_CC_GT -> cpsr[30] = 0 /\ ge
         [] cc = ARM_CC_LE -> cpsr[30] = 1 \/ ~ge

C20_SignedConditions ==
    (/\ last.op = "condition"
     /\ last.arg.instruction.address = last.arg.regs.pc
     /\ last.arg.instruction.cc \in ARM_CC_GE..ARM_CC_LE)
        => (Truthy(last.ret) <=> ArmHolds(last.arg.instruction.cc, last.arg.regs.cpsr))

\* What the code does instead: the entry is chosen by the number of the
\* opcode, whatever the condition code, and the entries of GE and GT
\* compare N and V as masked words, which are equal only when both are 0.
C20_AsCoded ==
    (/\ last.op = "condition"
     /\ last.arg.instruction.address = last.arg.regs.pc
     /\ last.arg.instruction.cc # ARM_CC_AL)
        => LET id == last.arg.instruction.id
               cpsr == last.arg.regs.cpsr
               bothClear == cpsr[31] = 0 /\ cpsr[28] = 0
           IN /\ id > ARM_CC_LE => last.ret = PyNone
              /\ id = ARM_CC_GE => (Truthy(last.ret) <=> bothClear)
              /\ id = ARM_CC_LT => (Truthy(last.ret) <=> ~bothClear)
              /\ id = ARM_CC_GT => (Truthy(last.ret) <=> cpsr[30] = 0 /\ bothClear)
              /\ id = ARM_CC_LE => (Truthy(last.ret) <=> cpsr[30] = 1 \/ ~bothClear)

====
